---------------------------- MODULE Spec2Model ----------------------------
(***************************************************************************)
(* Model of src/main.cpp: a Boost.Asio/Beast HTTP server.                  *)
(*                                                                         *)
(*   handle_request   the router (two exact string comparisons)            *)
(*   session          one accepted socket: async_read, do_write,           *)
(*                    async_write, shutdown; kept alive by shared_ptr      *)
(*   listener         async_accept chain that re-arms itself               *)
(*   main             listener construction, THREADS workers on ioc.run()  *)
(*                                                                         *)
(* Strings the code compares or concatenates (target, header names and     *)
(* values, body) are sequences of one-character strings, so that equality  *)
(* and concatenation are those of std::string.                             *)
(***************************************************************************)
EXTENDS Integers, Sequences, FiniteSets, TLC

VARIABLES THREADS,   \* const int THREADS = hardware_concurrency()
          mainPc,    \* where main() is: "listen", "spawn", "join", "exited"
          pool,      \* number of threads spawned, each inside ioc.run()
          listener,  \* the listener object and its pending accept
          backlog,   \* connections completed by the kernel, not yet accepted
          nconn,     \* number of client connections made so far
          extra,     \* connections on which the client sent a second request
          sessions,  \* the session objects, in order of creation
          cerr,      \* lines written to std::cerr
          exitStatus \* what main() returned; NotExited while it has not

vars == <<THREADS, mainPc, pool, listener, backlog, nconn, extra, sessions, cerr,
         exitStatus>>

\* ------------------------------------------------------------------ bounds
MaxConn    == 2   \* client connections in the concurrent specifications
MaxThreads == 1   \* largest value of hardware_concurrency() explored
MaxHeaders == 2   \* header fields per request in the router specification
MaxErrors  == 1   \* accept errors explored (caps the length of cerr)

\* ----------------------------------------------------------------- strings
S_hello     == <<"/", "h", "e", "l", "l", "o">>
S_headers   == <<"/", "h", "e", "a", "d", "e", "r", "s">>
S_helloNl   == <<"h", "e", "l", "l", "o", "\n">>
S_NotFound  == <<"N", "o", "t", " ", "F", "o", "u", "n", "d">>
S_colonSp   == <<":", " ">>
S_nl        == <<"\n">>
S_server    == <<"B", "o", "o", "s", "t", ".", "B", "e", "a", "s", "t", " ",
                 "S", "e", "r", "v", "e", "r">>
S_close     == <<"c", "l", "o", "s", "e">>
S_keepalive == <<"k", "e", "e", "p", "-", "a", "l", "i", "v", "e">>

\* ------------------------------------------------------------------ inputs
Methods  == {"GET", "POST"}
Versions == {10, 11}           \* the parser accepts HTTP/1.0 and HTTP/1.1 only
Targets  == { S_hello, S_headers,
              <<"/">>,
              <<"/", "h", "e", "l", "l">>,
              <<"/", "h", "e", "l", "l", "o", "/">>,
              <<"/", "h", "e", "l", "l", "o", "?", "x", "=", "1">>,
              <<"/", "h", "e", "a", "d", "e", "r", "s", "/", "x">>,
              <<"/", "H", "e", "l", "l", "o">> }
Names    == { <<"H", "o", "s", "t">>, <<"N", "o", "t">> }
Values   == { <<"a">>, <<"F", "o", "u", "n", "d">>, <<>> }
Fields   == [name : Names, value : Values]

RECURSIVE SeqsUpTo(_, _)
SeqsUpTo(S, n) ==
    IF n = 0 THEN { <<>> }
    ELSE LET shorter == SeqsUpTo(S, n - 1)
         IN  shorter \cup { Append(q, x) : q \in shorter, x \in S }

\* every request of the bounded domain (router specification)
AllRequests ==
    [method : Methods, target : Targets, version : Versions,
     headers : SeqsUpTo(Fields, MaxHeaders)]

\* the requests of the concurrent specifications
Requests ==
    { [method |-> "GET", target |-> S_hello, version |-> 11, headers |-> <<>>],
      [method |-> "GET", target |-> S_headers, version |-> 10,
       headers |-> << [name |-> <<"H", "o", "s", "t">>, value |-> <<"a">>] >>],
      [method |-> "POST", target |-> <<"/">>, version |-> 11, headers |-> <<>>] }

\* ------------------------------------------------------------------ router
\* the mutants below are the code with one plausible slip each

\* slip: the route is matched by prefix instead of exactly
IsPrefix(p, s) == Len(p) <= Len(s) /\ SubSeq(s, 1, Len(p)) = p

RECURSIVE EchoHeaders(_)
\* lines 28-33: for (auto &h : req.base()) headers += name + ": " + value + "\n"
EchoHeaders(hs) ==
    IF hs = <<>> THEN <<>>
    ELSE Head(hs).name \o S_colonSp \o Head(hs).value \o S_nl
         \o EchoHeaders(Tail(hs))

RECURSIVE EchoHeadersReversed(_)
\* slip: the lines are prepended, so the fields come out in reverse order
EchoHeadersReversed(hs) ==
    IF hs = <<>> THEN <<>>
    ELSE EchoHeadersReversed(Tail(hs))
         \o Head(hs).name \o S_colonSp \o Head(hs).value \o S_nl

handle_request_noNewline(req) ==
    IF req.target = S_hello THEN <<"h", "e", "l", "l", "o">>
    ELSE IF req.target = S_headers THEN EchoHeaders(req.headers)
    ELSE S_NotFound

handle_request_reversed(req) ==
    IF req.target = S_hello THEN S_helloNl
    ELSE IF req.target = S_headers THEN EchoHeadersReversed(req.headers)
    ELSE S_NotFound

handle_request_prefix(req) ==
    IF IsPrefix(S_hello, req.target) THEN S_helloNl
    ELSE IF IsPrefix(S_headers, req.target) THEN EchoHeaders(req.headers)
    ELSE S_NotFound

\* lines 19-36.  The method is never read.
handle_request(req) ==
    IF req.target = S_hello THEN S_helloNl
    ELSE IF req.target = S_headers THEN EchoHeaders(req.headers)
    ELSE S_NotFound

\* ----------------------------------------------------------------- session
\* http::request<> and http::response<> as default-constructed (lines 45-46)
EmptyRequest  == [method |-> "", target |-> <<>>, version |-> 11, headers |-> <<>>]
EmptyResponse == [version |-> 11, status |-> 200, connection |-> <<>>,
                  server |-> <<>>, body |-> <<>>, contentLength |-> -1]

\* a token list without the tokens of T
Without(tokens, T) == SelectSeq(tokens, LAMBDA t : t \notin T)

\* slip: the Connection field is written whatever the version
keep_alive_false_always(version, connection) ==
    LET kept == Without(connection, {S_keepalive})
    IN  IF S_close \in { kept[i] : i \in DOMAIN kept } THEN kept
        ELSE Append(kept, S_close)

\* line 77: res_.keep_alive(false).  Beast edits the Connection field by the
\* version the message has at the call: below HTTP/1.1, where closing is the
\* default, it removes the close and keep-alive tokens and erases a field
\* left empty; from HTTP/1.1 on it removes keep-alive and adds close.
\* The empty token list stands for "no Connection field".
keep_alive_false(version, connection) ==
    IF version < 11
    THEN Without(connection, {S_close, S_keepalive})
    ELSE LET kept == Without(connection, {S_keepalive})
         IN  IF S_close \in { kept[i] : i \in DOMAIN kept } THEN kept
             ELSE Append(kept, S_close)

\* lines 49-50: the session takes the accepted socket
NewSession(sock) ==
    [sock |-> sock, state |-> "Accepted", open |-> TRUE,
     req |-> EmptyRequest, res |-> EmptyResponse,
     nreads |-> 0, nwrites |-> 0, refs |-> 1,
     sendShut |-> FALSE, sent |-> FALSE]

\* slip: the read handler captures this instead of self; the only owner is
\* the temporary of line 150, which dies when run() returns
do_read_capturesThis(s) ==
    [s EXCEPT !.state = "Reading", !.nreads = @ + 1, !.refs = 0, !.open = FALSE]

\* lines 58-68: one async_read is started; its handler owns a reference
do_read(s) == [s EXCEPT !.state = "Reading", !.nreads = @ + 1]

\* lines 70-97: route, build the response, start the one async_write
do_write(s) ==
    LET body == handle_request(s.req)
    IN  [s EXCEPT !.res = [version |-> s.req.version,
                           status |-> IF body = S_NotFound THEN 404 ELSE 200,
                           connection |->
                               keep_alive_false(s.req.version, s.res.connection),
                           server |-> S_server, body |-> body,
                           contentLength |-> Len(body)],
                  !.state = "Writing", !.nwrites = @ + 1]

\* slip: the session answers before it has read anything
run_writesFirst(s) == do_write(s)

\* lines 52-55; the temporary shared_ptr of line 150 dies after run(), the
\* read handler's copy stays
run(s) == do_read(s)

\* the last shared_ptr goes: ~session closes the socket (line 43)
Release(s) == [s EXCEPT !.refs = 0, !.open = FALSE, !.state = "Closed"]

\* slip: on a failed read the handler answers with a best-effort response
\* built from the request it never got
on_read_answersError(s, ok, req) ==
    IF ok THEN do_write([s EXCEPT !.req = req])
    ELSE do_write(s)

\* lines 63-67: the read handler; ok is !ec, req the parsed request
on_read(s, ok, req) ==
    IF ok THEN do_write([s EXCEPT !.req = req])
    ELSE Release(s)

\* slip: a keep-alive loop, the handler reads the next request
on_write_readAgain(s, ok) ==
    IF ok THEN do_read([s EXCEPT !.sent = TRUE]) ELSE Release(s)

\* slip: the send half is shut down only after a successful write
on_write_shutdownIfOk(s, ok) ==
    Release([s EXCEPT !.sendShut = ok, !.sent = ok])

\* lines 93-96: the write handler shuts the send half down whatever ec is,
\* then drops the last reference
on_write(s, ok) ==
    Release([s EXCEPT !.sendShut = TRUE, !.sent = ok])

\* ---------------------------------------------------------------- listener
\* socket_ holds the connection it is open on, or NoSocket (a socket just
\* constructed, or moved from); done is the ec of a completed accept whose
\* handler has not run yet ("none": no completion queued)
NoSocket == 0

\* lines 110-129, constructor without a throw, then the listener is not yet
\* accepting
NewListener ==
    [acceptor |-> "listening", socket_ |-> NoSocket, accepting |-> FALSE,
     done |-> "none"]

\* slip: the accept is re-armed only on the error path
do_accept_unlessOk(l) ==
    [l EXCEPT !.socket_ = NoSocket, !.accepting = (l.done # "ok"),
              !.done = "none"]

\* slip: the session is built on a reference to the listener's socket_ and
\* the next accept reuses that socket, nothing is moved or replaced
do_accept_keepsSocket(l) == [l EXCEPT !.accepting = TRUE, !.done = "none"]

\* lines 136-155 up to the call: a fresh socket_, one async_accept started.
\* It is called from run() and at the end of every accept handler, whatever
\* ec was (line 154).
do_accept(l) ==
    [l EXCEPT !.socket_ = NoSocket, !.accepting = TRUE, !.done = "none"]

\* slip: a session is made on the error path too
on_accept_sessions_always(l, ss) == Append(ss, run(NewSession(l.socket_)))

\* lines 149-150: on success a session is made from socket_ and started
on_accept_sessions(l, ss) ==
    IF l.done = "ok" THEN Append(ss, run(NewSession(l.socket_))) ELSE ss

\* lines 151-153: on an error one line goes to std::cerr
on_accept_cerr(l, log) ==
    IF l.done = "ok" THEN log ELSE Append(log, "accept error")

\* -------------------------------------------------------------------- main
\* main() has no return statement, on the path through the catch clause
\* (lines 226-229) as on the path through the joins: flowing off its end
\* (line 230) returns 0
main_returns == 0

\* main() has not returned
NotExited == -1

\* ----------------------------------------------------------------- actions
\* some thread is inside ioc.run(): handlers and completions can run
Running == mainPc \in {"spawn", "join"} /\ pool > 0

\* line 182, the constructor succeeds; run() arms the first accept
MainListen ==
    /\ mainPc = "listen"
    /\ mainPc' = "spawn"
    /\ listener' = do_accept(NewListener)
    /\ UNCHANGED <<exitStatus, THREADS, pool, backlog, nconn, extra, sessions, cerr>>

\* lines 114-128 throw, lines 226-229 catch and print; main returns
MainListenFails ==
    /\ mainPc = "listen"
    /\ mainPc' = "exited"
    /\ cerr' = Append(cerr, "Fatal Error")
    /\ exitStatus' = main_returns
    /\ UNCHANGED <<THREADS, pool, listener, backlog, nconn, extra, sessions>>

\* lines 201-203: one more thread enters ioc.run()
MainSpawn ==
    /\ mainPc = "spawn"
    /\ pool < THREADS
    /\ pool' = pool + 1
    /\ UNCHANGED <<exitStatus, THREADS, mainPc, listener, backlog, nconn, extra, sessions, cerr>>

\* the spawn loop ends, main reaches the joins (line 218)
MainJoin ==
    /\ mainPc = "spawn"
    /\ pool = THREADS
    /\ mainPc' = "join"
    /\ UNCHANGED <<exitStatus, THREADS, pool, listener, backlog, nconn, extra, sessions, cerr>>

\* lines 218-225: with nothing to join, main leaves the try block; ioc and
\* with it the listener and its pending accept are destroyed
MainReturn ==
    /\ mainPc = "join"
    /\ pool = 0
    /\ mainPc' = "exited"
    /\ listener' = [listener EXCEPT !.acceptor = "closed", !.accepting = FALSE]
    /\ backlog' = <<>>
    /\ exitStatus' = main_returns
    /\ UNCHANGED <<THREADS, pool, nconn, extra, sessions, cerr>>

\* a client connects: the kernel queues the connection on the listening socket
ClientConnect(n) ==
    /\ mainPc \in {"spawn", "join"}
    /\ listener.acceptor = "listening"
    /\ nconn < n
    /\ nconn' = nconn + 1
    /\ backlog' = Append(backlog, nconn + 1)
    /\ UNCHANGED <<exitStatus, THREADS, mainPc, pool, listener, extra, sessions, cerr>>

\* a client writes a second request on its connection
ClientSecondRequest(c) ==
    /\ c \in 1..nconn
    /\ c \notin extra
    /\ extra' = extra \cup {c}
    /\ UNCHANGED <<exitStatus, THREADS, mainPc, pool, listener, backlog, nconn, sessions, cerr>>

\* the pending async_accept completes (line 147): with a connection, with a
\* transient error, or with an error of the listening socket itself, after
\* which every accept on it fails
AcceptCompletes(ec) ==
    /\ Running
    /\ listener.accepting
    /\ CASE ec = "ok" ->
              /\ listener.acceptor = "listening"
              /\ backlog # <<>>
              /\ listener' = [listener EXCEPT !.accepting = FALSE, !.done = "ok",
                                              !.socket_ = Head(backlog)]
              /\ backlog' = Tail(backlog)
         [] ec = "transient" ->
              /\ listener.acceptor = "listening"
              /\ Len(cerr) < MaxErrors
              /\ listener' = [listener EXCEPT !.accepting = FALSE,
                                              !.done = "transient"]
              /\ UNCHANGED backlog
         [] ec = "fatal" ->
              /\ Len(cerr) < MaxErrors
              /\ listener' = [listener EXCEPT !.accepting = FALSE,
                                              !.done = "fatal",
                                              !.acceptor = "broken"]
              /\ UNCHANGED backlog
    /\ UNCHANGED <<exitStatus, THREADS, mainPc, pool, nconn, extra, sessions, cerr>>

\* lines 148-154: the accept handler
AcceptHandler ==
    /\ Running
    /\ listener.done # "none"
    /\ sessions' = on_accept_sessions(listener, sessions)
    /\ cerr' = on_accept_cerr(listener, cerr)
    /\ listener' = do_accept(listener)
    /\ UNCHANGED <<exitStatus, THREADS, mainPc, pool, backlog, nconn, extra>>

\* slip: req_ is a static member, one request object for all the sessions
ReadHandlerOk_sharedRequest(i, R) ==
    /\ Running
    /\ i \in DOMAIN sessions
    /\ sessions[i].state = "Reading"
    /\ \E req \in R :
           sessions' = [j \in DOMAIN sessions |->
                           IF j = i THEN on_read(sessions[j], TRUE, req)
                           ELSE [sessions[j] EXCEPT !.req = req]]
    /\ UNCHANGED <<exitStatus, THREADS, mainPc, pool, listener, backlog, nconn, extra, cerr>>

\* lines 63-67: the read completes with a parsed request, one of R
ReadHandlerOk(i, R) ==
    /\ Running
    /\ i \in DOMAIN sessions
    /\ sessions[i].state = "Reading"
    /\ \E req \in R : sessions' = [sessions EXCEPT ![i] = on_read(@, TRUE, req)]
    /\ UNCHANGED <<exitStatus, THREADS, mainPc, pool, listener, backlog, nconn, extra, cerr>>

\* slip: the read is started with the throwing overload; on a failed read the
\* exception leaves the handler and ioc.run(), and the process terminates
ReadHandlerError_terminates(i) ==
    /\ Running
    /\ i \in DOMAIN sessions
    /\ sessions[i].state = "Reading"
    /\ sessions' = [sessions EXCEPT ![i] = on_read(@, FALSE, EmptyRequest)]
    /\ mainPc' = "exited"
    /\ listener' = [listener EXCEPT !.accepting = FALSE]
    /\ UNCHANGED <<exitStatus, THREADS, pool, backlog, nconn, extra, cerr>>

\* lines 63-67: the read completes with an error (reset, EOF, bad request)
ReadHandlerError(i) ==
    /\ Running
    /\ i \in DOMAIN sessions
    /\ sessions[i].state = "Reading"
    /\ sessions' = [sessions EXCEPT ![i] = on_read(@, FALSE, EmptyRequest)]
    /\ UNCHANGED <<exitStatus, THREADS, mainPc, pool, listener, backlog, nconn, extra, cerr>>

\* lines 93-96: the write completes, with or without an error
WriteHandler(i, ok) ==
    /\ Running
    /\ i \in DOMAIN sessions
    /\ sessions[i].state = "Writing"
    /\ sessions' = [sessions EXCEPT ![i] = on_write(@, ok)]
    /\ UNCHANGED <<exitStatus, THREADS, mainPc, pool, listener, backlog, nconn, extra, cerr>>

\* ---------------------------------------------------------- specifications
\* line 161: hardware_concurrency() may return 0
Init ==
    /\ THREADS \in 0..MaxThreads
    /\ mainPc = "listen"
    /\ pool = 0
    /\ listener = NewListener
    /\ backlog = <<>>
    /\ nconn = 0
    /\ extra = {}
    /\ sessions = <<>>
    /\ cerr = <<>>
    /\ exitStatus = NotExited

\* the server with at most n client connections sending requests of R
Server(n, R) ==
    \/ MainListen
    \/ MainListenFails
    \/ MainSpawn
    \/ MainJoin
    \/ MainReturn
    \/ ClientConnect(n)
    \/ \E c \in 1..n : ClientSecondRequest(c)
    \/ \E ec \in {"ok", "transient", "fatal"} : AcceptCompletes(ec)
    \/ AcceptHandler
    \/ \E i \in 1..n : ReadHandlerOk(i, R)
    \/ \E i \in 1..n : ReadHandlerError(i)
    \/ \E i \in 1..n, ok \in BOOLEAN : WriteHandler(i, ok)

Next == Server(MaxConn, Requests)

\* concurrent sessions
Spec == Init /\ [][Next]_vars

NextRouter == Server(1, AllRequests)

\* one connection, every request of the bounded domain
SpecRouter == Init /\ [][NextRouter]_vars

\* the liveness specifications follow every interleaving of the sessions,
\* which never depends on what a request holds: they read one request
NextLive ==
    Server(MaxConn, { [method |-> "GET", target |-> S_hello, version |-> 11,
                       headers |-> <<>>] })

\* fairness of the write completion alone: a started async_write of a
\* response that fits the socket's send buffer completes, with or without an
\* error, and a thread inside ioc.run() runs its handler
FairWrite ==
    /\ Init /\ [][NextLive]_vars
    /\ \A i \in 1..MaxConn : WF_vars(\E ok \in BOOLEAN : WriteHandler(i, ok))

\* fairness of the accept chain alone: a queued connection completes the
\* pending accept, and a thread inside ioc.run() runs the accept handler.
\* Nothing is assumed of the sessions: their reads and writes may never
\* complete.
FairAccept ==
    /\ Init /\ [][NextLive]_vars
    /\ WF_vars(AcceptCompletes("ok"))
    /\ WF_vars(AcceptHandler)

\* ------------------------------------------------------------------ claims
\* the sessions that have built and started writing a response
Answered == { i \in DOMAIN sessions : sessions[i].nwrites > 0 }

\* the sessions whose response reached the client in full
Delivered == { i \in DOMAIN sessions : sessions[i].sent }

\* the tokens of a Connection field value
Tokens(connection) == { connection[i] : i \in DOMAIN connection }

RECURSIVE LinesOf(_, _)
\* the "\n"-terminated lines of b, terminators dropped; cur is the line being
\* read.  Text after the last "\n" is kept as one more line.
LinesOf(b, cur) ==
    IF b = <<>> THEN (IF cur = <<>> THEN <<>> ELSE <<cur>>)
    ELSE IF Head(b) = "\n" THEN <<cur>> \o LinesOf(Tail(b), <<>>)
    ELSE LinesOf(Tail(b), Append(cur, Head(b)))

\* C1: every GET request for exactly /hello, whatever its headers, is
\* answered with status 200 and the six bytes "hello\n".
C1_HelloIs200 ==
    \A i \in Answered :
        LET s == sessions[i] IN
        (s.req.method = "GET" /\ s.req.target = <<"/", "h", "e", "l", "l", "o">>)
        => /\ s.res.status = 200
           /\ s.res.body = <<"h", "e", "l", "l", "o", "\n">>
           /\ Len(s.res.body) = 6
           /\ s.res.contentLength = 6

C1_Witness ==
    \E i \in Delivered :
        /\ sessions[i].req.method = "GET"
        /\ sessions[i].req.target = S_hello
        /\ Len(sessions[i].req.headers) = 2
        /\ sessions[i].res.status = 200

\* C2: every GET request for exactly /headers is answered with status 200
\* (never 404) and a body of one line "name: value\n" per header field, in
\* the order of the parsed request; with no field the body is empty.
C2_HeadersEchoed ==
    \A i \in Answered :
        LET s == sessions[i]
            H == s.req.headers
            b == s.res.body
        IN  (s.req.method = "GET" /\ s.req.target = S_headers)
            => /\ s.res.status = 200
               /\ (H = <<>>) => (b = <<>>)
               /\ (b # <<>>) => (b[Len(b)] = "\n")
               /\ LinesOf(b, <<>>)
                    = [k \in 1..Len(H) |-> H[k].name \o <<":", " ">> \o H[k].value]

C2_Witness ==
    \E i \in Delivered :
        LET s == sessions[i] IN
        /\ s.req.method = "GET"
        /\ s.req.target = S_headers
        /\ Len(s.req.headers) = 2
        /\ s.req.headers[1].name = <<"N", "o", "t">>
        /\ s.req.headers[1].value = <<"F", "o", "u", "n", "d">>
        /\ s.req.headers[2].name = <<"H", "o", "s", "t">>
        /\ s.res.status = 200

\* C3: every request whose target is neither exactly /hello nor exactly
\* /headers is answered, and with status 404: no prefix, extension or query
\* string matches a route.
C3_OtherTargets404 ==
    \A i \in DOMAIN sessions :
        LET s == sessions[i] IN
        (s.req # EmptyRequest /\ s.req.target \notin {S_hello, S_headers})
        => /\ s.nwrites = 1
           /\ s.state \in {"Writing", "Closed"}
           /\ s.res.status = 404

C3_Witness ==
    \E i \in Delivered :
        /\ sessions[i].req.target = <<"/", "h", "e", "l", "l", "o", "?", "x", "=", "1">>
        /\ sessions[i].res.status = 404

\* C4: every request whose method is not GET is answered with 404 or 405,
\* on every path.
C4_NonGetRejected ==
    \A i \in Answered :
        sessions[i].req.method # "GET" => sessions[i].res.status \in {404, 405}

\* C5: a session makes one exchange: it starts one read and at most one
\* write, its connection gets no second session and so at most one response,
\* and a closed session has closed its socket, also when the client has sent
\* a second request.
C5_OneExchange ==
    /\ \A i \in DOMAIN sessions :
           LET s == sessions[i] IN
           /\ s.nreads = 1
           /\ s.nwrites <= 1
           /\ s.state \in {"Reading", "Writing", "Closed"}
           /\ (s.state = "Reading") => (s.nwrites = 0)
           /\ (s.state = "Closed") => (~s.open /\ s.refs = 0)
           /\ s.sent => (s.state = "Closed" /\ s.nwrites = 1)
    /\ \A c \in 1..nconn :
           Cardinality({ i \in DOMAIN sessions : sessions[i].sock = c }) <= 1

C5_Witness ==
    \E i \in Delivered :
        /\ sessions[i].sock \in extra
        /\ sessions[i].state = "Closed"
        /\ ~sessions[i].open

\* C6: a session whose write has been started is eventually closed, its send
\* half shut down, its socket closed and its last reference dropped, whether
\* the write succeeds or fails.
C6_WritingLeadsToClosed ==
    \A i \in 1..MaxConn :
        (i \in DOMAIN sessions /\ sessions[i].state = "Writing")
        ~> (/\ i \in DOMAIN sessions
            /\ sessions[i].state = "Closed"
            /\ sessions[i].sendShut
            /\ ~sessions[i].open
            /\ sessions[i].refs = 0)

C6_Witness ==
    \E i \in DOMAIN sessions, j \in DOMAIN sessions :
        /\ sessions[i].state = "Closed" /\ sessions[i].nwrites = 1
        /\ ~sessions[i].sent /\ sessions[i].sendShut
        /\ sessions[j].state = "Closed" /\ sessions[j].sent
        /\ sessions[j].sendShut

\* C7 as claimed: every response carries Connection: close, whatever HTTP
\* version the request declares.
C7_AlwaysConnectionClose ==
    \A i \in Answered : S_close \in Tokens(sessions[i].res.connection)

\* C7 amended: the response takes the request's version; answering an
\* HTTP/1.1 request it carries Connection: close, answering an HTTP/1.0
\* request it carries no Connection field.
C7_ConnectionByVersion ==
    \A i \in Answered :
        LET s == sessions[i] IN
        /\ s.res.version = s.req.version
        /\ (s.req.version = 11) => (s.res.connection = <<S_close>>)
        /\ (s.req.version = 10) => (s.res.connection = <<>>)

C7_Witness ==
    \E i \in Delivered, j \in Delivered :
        /\ sessions[i].req.version = 10 /\ sessions[i].res.connection = <<>>
        /\ sessions[j].req.version = 11
        /\ sessions[j].res.connection = <<S_close>>

\* C8: acceptance never waits for a session.  Every accept handler leaves an
\* accept armed and, on success, a new session reading, the other sessions
\* untouched; and a connection waiting while the event loop runs is
\* eventually given its session (or the listening socket has failed),
\* although no earlier session need ever leave Reading or Writing.
C8_AcceptNeverWaits ==
    /\ [][(listener.done # "none" /\ listener'.done = "none")
          => /\ listener'.accepting
             /\ (listener.done = "ok")
                => /\ Len(sessions') = Len(sessions) + 1
                   /\ sessions'[Len(sessions')].state = "Reading"
                   /\ sessions'[Len(sessions')].sock = listener.socket_
                   /\ SubSeq(sessions', 1, Len(sessions)) = sessions]_vars
    /\ \A c \in 1..MaxConn :
           (Running /\ c \in { backlog[k] : k \in DOMAIN backlog })
           ~> (\/ \E i \in DOMAIN sessions : sessions[i].sock = c
               \/ listener.acceptor = "broken")

C8_Witness ==
    /\ Len(sessions) = 2
    /\ sessions[1].state = "Writing"
    /\ sessions[2].state = "Reading"
    /\ listener.accepting

\* C9: the handler of an accept that failed with a transient error writes
\* one line to std::cerr, makes no session and arms the next accept on a
\* listening socket that still accepts.
C9_TransientAcceptError ==
    [][(listener.done = "transient" /\ listener'.done = "none")
       => /\ cerr' = Append(cerr, "accept error")
          /\ sessions' = sessions
          /\ listener'.accepting
          /\ listener'.acceptor = "listening"]_vars

\* an accept error was logged and a later accept has completed with a
\* connection
C9_Witness ==
    /\ "accept error" \in { cerr[k] : k \in DOMAIN cerr }
    /\ listener.done = "ok"
    /\ listener.socket_ # NoSocket

\* C10: the handler of an accept that failed with an error of the listening
\* socket itself arms no further accept.
C10_FatalEndsAcceptLoop ==
    [][(listener.done = "fatal" /\ listener'.done = "none")
       => ~listener'.accepting]_vars

\* C11: when the listener cannot be set up, the process prints the error,
\* arms no accept, starts no worker thread, serves no connection, and exits
\* with a non-zero status.
C11_StartupFailureExitsNonZero ==
    ("Fatal Error" \in { cerr[k] : k \in DOMAIN cerr })
    => /\ mainPc = "exited"
       /\ ~listener.accepting
       /\ pool = 0
       /\ nconn = 0
       /\ sessions = <<>>
       /\ exitStatus # NotExited
       /\ exitStatus # 0

\* C12: the step in which a session fails (its read or its write completes
\* with an error and it closes without a delivered response) changes that
\* session alone: every other session, the listener with its armed accept,
\* the accept queue, the worker pool and main are as before; and while the
\* event loop runs the accept chain is never interrupted.
C12_FailureIsLocal ==
    /\ [][\A i \in DOMAIN sessions :
            (/\ sessions[i].state \in {"Reading", "Writing"}
             /\ i \in DOMAIN sessions'
             /\ sessions'[i].state = "Closed"
             /\ ~sessions'[i].sent)
            => /\ Len(sessions') = Len(sessions)
               /\ \A j \in DOMAIN sessions \ {i} : sessions'[j] = sessions[j]
               /\ listener' = listener
               /\ backlog' = backlog
               /\ pool' = pool
               /\ mainPc' = mainPc
               /\ cerr' = cerr]_vars
    /\ [](Running => (listener.accepting \/ listener.done # "none"))

\* session 1 failed in its read, session 2 failed in its write, and an accept
\* is armed
C12_Witness ==
    /\ Len(sessions) = 2
    /\ sessions[1].state = "Closed" /\ sessions[1].nwrites = 0
    /\ sessions[2].state = "Closed" /\ sessions[2].nwrites = 1
    /\ ~sessions[2].sent
    /\ listener.accepting

\* the status and body each request of the concurrent specifications gets
\* from a server that serves nothing else
AloneStatus(req) ==
    CASE req.target = <<"/", "h", "e", "l", "l", "o">> -> 200
      [] req.target = <<"/", "h", "e", "a", "d", "e", "r", "s">> -> 200
      [] req.target = <<"/">> -> 404

AloneBody(req) ==
    CASE req.target = <<"/", "h", "e", "l", "l", "o">> ->
             <<"h", "e", "l", "l", "o", "\n">>
      [] req.target = <<"/", "h", "e", "a", "d", "e", "r", "s">> ->
             <<"H", "o", "s", "t", ":", " ", "a", "\n">>
      [] req.target = <<"/">> ->
             <<"N", "o", "t", " ", "F", "o", "u", "n", "d">>

\* C13: under every interleaving of the sessions, a session's response is
\* the one its own request gets when served alone, identical requests get
\* identical responses, and no step changes two sessions.
C13_SessionsIsolated ==
    /\ [](\A i \in Answered :
            /\ sessions[i].req \in Requests
            /\ sessions[i].res.status = AloneStatus(sessions[i].req)
            /\ sessions[i].res.body = AloneBody(sessions[i].req)
            /\ \A j \in Answered :
                   (sessions[j].req = sessions[i].req)
                   => (sessions[j].res = sessions[i].res))
    /\ [][\A i \in DOMAIN sessions, j \in DOMAIN sessions :
            (i # j) => (sessions'[i] = sessions[i] \/ sessions'[j] = sessions[j])]_vars

\* two sessions are writing at once, answering different requests
C13_Witness ==
    /\ Len(sessions) = 2
    /\ sessions[1].state = "Writing"
    /\ sessions[2].state = "Writing"
    /\ sessions[1].req.target = S_hello
    /\ sessions[2].req.target = S_headers

\* the place of a session state in accepted, reading, dispatching, writing,
\* closed
Rank(state) ==
    CASE state = "Accepted" -> 0
      [] state = "Reading" -> 1
      [] state = "Dispatching" -> 2
      [] state = "Writing" -> 3
      [] state = "Closed" -> 4

\* C14: a session reads once, routes only a request it has read, writes only
\* a response the router has produced, writes at most once, and never moves
\* back to an earlier state; a closed session changes no more.
C14_StrictOrder ==
    /\ [](\A i \in DOMAIN sessions :
            LET s == sessions[i] IN
            /\ s.nreads = 1
            /\ s.nwrites <= 1
            /\ (s.res # EmptyResponse) => (s.req # EmptyRequest)
            /\ (s.nwrites = 1) <=> (s.res # EmptyResponse)
            /\ (s.state = "Writing") => (s.nwrites = 1)
            /\ (s.state = "Reading") => (s.req = EmptyRequest))
    /\ [][\A i \in DOMAIN sessions :
            /\ Rank(sessions'[i].state) >= Rank(sessions[i].state)
            /\ sessions'[i].nreads >= sessions[i].nreads
            /\ sessions'[i].nwrites >= sessions[i].nwrites
            /\ (sessions[i].state = "Closed") => (sessions'[i] = sessions[i])]_vars

\* a session went through read, dispatch and write while another one is
\* still reading
C14_Witness ==
    \E i \in Delivered, j \in DOMAIN sessions :
        /\ sessions[i].nreads = 1 /\ sessions[i].nwrites = 1
        /\ sessions[i].state = "Closed"
        /\ sessions[j].state = "Reading"

\* C15: a session whose read completes with an error (I/O error, EOF,
\* malformed request) closes in that very step and no later: the router is
\* not called, no write is started, nothing is delivered, its socket is
\* closed and its last reference gone.  A session leaves Reading only to
\* Writing, with a request read, or to Closed in this way.
C15_ReadFailureCloses ==
    [][\A i \in DOMAIN sessions :
         (sessions[i].state = "Reading" /\ sessions'[i] # sessions[i])
         => \/ /\ sessions'[i].state = "Writing"
               /\ sessions'[i].req \in Requests
            \/ /\ sessions'[i].state = "Closed"
               /\ sessions'[i].req = EmptyRequest
               /\ sessions'[i].res = EmptyResponse
               /\ sessions'[i].nwrites = 0
               /\ ~sessions'[i].sent
               /\ ~sessions'[i].sendShut
               /\ ~sessions'[i].open
               /\ sessions'[i].refs = 0]_vars

\* a session closed by a failed read, although its client had sent two
\* requests' worth of bytes
C15_Witness ==
    \E i \in DOMAIN sessions :
        /\ sessions[i].state = "Closed"
        /\ sessions[i].nreads = 1 /\ sessions[i].nwrites = 0
        /\ ~sessions[i].open
        /\ sessions[i].sock \in extra

\* C16: once main has reached the joins the pool is never resized: main
\* stays in the joins and the number of threads inside ioc.run() stays what
\* it is.
C16_PoolNeverResized ==
    [][(mainPc = "join")
       => (mainPc' = "join" /\ pool' = pool /\ pool = THREADS)]_vars

\* C17: after a successful start, whatever hardware_concurrency() returned,
\* at least one thread is inside ioc.run() to accept and to answer.
C17_SomeWorkerServes == (mainPc = "join") => (pool >= 1)

\* the connections waiting in the accept queue
Queued == { backlog[k] : k \in DOMAIN backlog }

C19_LifetimeFollowsPendingOps ==
    /\ [](\A i \in DOMAIN sessions :
            LET s == sessions[i]
                pending == s.state \in {"Reading", "Writing"}
            IN  /\ pending => (s.refs >= 1 /\ s.open)
                /\ (~pending) => (s.refs = 0 /\ ~s.open /\ s.state = "Closed")
                /\ s.refs \in {0, 1})
    /\ [][\A i \in DOMAIN sessions :
            (sessions'[i] # sessions[i]) => (sessions[i].refs >= 1)]_vars

\* one session destroyed after its write failed, one destroyed after its
\* read failed, none leaked
C19_Witness ==
    /\ Len(sessions) = 2
    /\ \E i \in {1, 2} :
           /\ sessions[i].nwrites = 1 /\ ~sessions[i].sent
           /\ sessions[i].refs = 0 /\ ~sessions[i].open
           /\ sessions[3 - i].nwrites = 0
           /\ sessions[3 - i].refs = 0 /\ ~sessions[3 - i].open

====
